---- MODULE Spec2Model ----
(***************************************************************************)
(* visitfinland-scrape: the paged GraphQL fetcher (main.py) and the        *)
(* PostgreSQL loader (ingest_products.py), as state machines.              *)
(*                                                                         *)
(* The two programs are independent batch jobs; each has its own           *)
(* specification (SpecFetch, SpecLoad).  The pure functions pick_name and  *)
(* parse_location_point/build_row are exercised by SpecPick and SpecPoint. *)
(***************************************************************************)
EXTENDS Integers, Sequences, FiniteSets, TLC

VARIABLES
    \* ---- main.py: main() ----
    fpc,          \* "fetching" | "written" | "aborted" ("idle": not run)
    i,            \* loop variable of range(0, 20000, limit)
    products,     \* the accumulated list
    outWritten,   \* all_products_all_data.json has been written by this run
    outFile,      \* what json.dump wrote
    requests,     \* offsets of the requests issued, in order (environment log)
    replies,      \* what each request returned or raised (environment log)
    \* ---- ingest_products.py: a call of a pure function ----
    arg,          \* the product object handed to pick_name / build_row
    ret,          \* what the call returned (Pending before the call)
    \* ---- ingest_products.py: main() ----
    lpc,          \* "start" | "loop" | "exit" ("idle": not run)
    commit_every, \* args.commit_every
    ensure_schema,\* args.ensure_schema
    payload,      \* what read_json returned
    idx,          \* position of `for p in products` (1-based, next element)
    n,            \* the row counter
    db,           \* the committed database: [schema, rows]
    tx,           \* the connection's view: [open, start, schema, rows, pending]
    clock,        \* the server's clock
    exit,         \* [code, msg] once the process has ended
    stdout,       \* the count printed by "OK: upserted {n} products.", -1 before
    executed,     \* UPSERT_SQL statements executed by this run (log)
    commitLog,    \* the conn.commit() calls of this run: [at |-> n, by |-> place] (log)
    startDb,      \* the committed database when this run connected
    run,          \* which run of the loader on this input this is
    firstRun      \* the committed database as the first run left it

fvars == <<fpc, i, products, outWritten, outFile, requests, replies>>

pvars == <<arg, ret>>

lvars == <<lpc, commit_every, ensure_schema, payload, idx, n, db, tx, clock, exit,
           stdout, executed, commitLog, startDb, run, firstRun>>

vars == <<fvars, pvars, lvars>>

\* the programs and calls that are not part of a specification stay as they are here
IdleFetcher ==
    /\ fpc = "idle"
    /\ i = 0
    /\ products = <<>>
    /\ outWritten = FALSE
    /\ outFile = [encoding |-> "none"]
    /\ requests = <<>>
    /\ replies = <<>>

IdleCall ==
    /\ arg = [t |-> "null"]
    /\ ret = [t |-> "pending"]

IdleLoader ==
    /\ lpc = "idle"
    /\ commit_every = 0
    /\ ensure_schema = FALSE
    /\ payload = [t |-> "null"]
    /\ idx = 0
    /\ n = 0
    /\ db = [schema |-> {}, rows |-> {}]
    /\ tx = [open |-> FALSE, start |-> 0, schema |-> {}, rows |-> {}, pending |-> 0]
    /\ clock = 0
    /\ exit = [code |-> -1, msg |-> ""]
    /\ stdout = -1
    /\ executed = 0
    /\ commitLog = <<>>
    /\ startDb = [schema |-> {}, rows |-> {}]
    /\ run = 0
    /\ firstRun = [schema |-> {}, rows |-> {}]

(***************************************************************************)
(* Bounds of the model.                                                    *)
(***************************************************************************)
\* a page carries 0..MaxPageLen products (the server may return fewer than limit)
MaxPageLen == 2
\* the first VariedPages replies vary in length; later non-empty pages carry one product
VariedPages == 3

(***************************************************************************)
(* main.py                                                                 *)
(***************************************************************************)
limit == 200

OffsetBound == 20000

\* range(0, 20000, limit): the loop body runs for offset o
InRangeOffByOne(o) == o <= OffsetBound

InRange(o) == o < OffsetBound

\* the exceptions the three except clauses name; each handler prints and re-raises
Failures == {"TimeoutError", "TransportServerError", "Exception"}

\* a product of the page at offset o is identified by its position on the server
Page(o, k) == [j \in 1..k |-> <<o, j>>]

\* the lengths the reply to the r-th request may have
PageLens(r) == IF r <= VariedPages THEN 0..MaxPageLen ELSE {0, 1}

\* result['product'] == []
IsEmptyPageNever(page) == FALSE

IsEmptyPage(page) == page = <<>>

\* products.extend(result['product'])
Extend(ps, page) == ps \o page

\* json.dump(products, f, ensure_ascii=False, indent='\t'): one array, elements in list order
Dump(ps) == [encoding |-> "utf-8", ensure_ascii |-> FALSE, indent |-> "\t", array |-> ps]

NoFile == [encoding |-> "none"]

\* `raise` in each except clause: the exception leaves main(), the file is never opened
RaiseSwallowed == [pc |-> "written", written |-> TRUE]

Raise == [pc |-> "aborted", written |-> FALSE]

FetchInit ==
    /\ fpc = "fetching"
    /\ i = 0
    /\ products = <<>>
    /\ outWritten = FALSE
    /\ outFile = NoFile
    /\ requests = <<>>
    /\ replies = <<>>
    /\ IdleCall
    /\ IdleLoader

\* session.execute(query) raises at offset i
RequestFails ==
    /\ fpc = "fetching"
    /\ InRange(i)
    /\ \E e \in Failures :
        /\ requests' = Append(requests, i)
        /\ replies' = Append(replies, [kind |-> e])
        /\ fpc' = Raise.pc
        /\ outWritten' = Raise.written
        /\ outFile' = IF Raise.written THEN Dump(products) ELSE outFile
        /\ UNCHANGED <<i, products, pvars, lvars>>

\* one iteration of the loop whose request succeeds; the statements after the loop
\* (open + json.dump) run in the same step when the loop ends here
RequestReturns ==
    /\ fpc = "fetching"
    /\ InRange(i)
    /\ \E k \in PageLens(Len(requests) + 1) :
        LET page == Page(i, k)
            ps   == IF IsEmptyPage(page) THEN products ELSE Extend(products, page)
            over == IsEmptyPage(page) \/ ~InRange(i + limit)
        IN  /\ requests' = Append(requests, i)
            /\ replies' = Append(replies, [kind |-> "ok", product |-> page])
            /\ products' = ps
            /\ i' = IF IsEmptyPage(page) THEN i ELSE i + limit
            /\ fpc' = IF over THEN "written" ELSE "fetching"
            /\ outWritten' = over
            /\ outFile' = IF over THEN Dump(ps) ELSE outFile
            /\ UNCHANGED <<pvars, lvars>>

FetchNext == RequestFails \/ RequestReturns

SpecFetch == FetchInit /\ [][FetchNext]_vars

\* asyncio.run(main()) drives the single coroutine until it returns or raises
FairSpecFetch == SpecFetch /\ WF_vars(FetchNext)

(***************************************************************************)
(* JSON values, as json.load delivers them to ingest_products.py.          *)
(* A string is a sequence of one-character strings.                        *)
(***************************************************************************)
Null == [t |-> "null"]

Str(s) == [t |-> "str", s |-> s]

List(xs) == [t |-> "list", xs |-> xs]

\* a dict; f is a record holding the keys that are present
Obj(f) == [t |-> "obj", f |-> f]

EmptyObj == [t |-> "obj", f |-> <<>>]

Pending == [t |-> "pending"]

\* isinstance(x, dict) / isinstance(x, list) / isinstance(x, str)
IsDict(x) == x.t = "obj"

IsList(x) == x.t = "list"

IsStr(x) == x.t = "str"

\* d.get(k)
Get(d, k) == IF k \in DOMAIN d.f THEN d.f[k] ELSE Null

\* Python truthiness of None, "", [] and {}
Falsy(x) ==
    \/ x.t = "null"
    \/ x.t = "str" /\ x.s = <<>>
    \/ x.t = "list" /\ x.xs = <<>>
    \/ x.t = "obj" /\ DOMAIN x.f = {}

\* (x or "")
OrEmptyStr(x) == IF Falsy(x) THEN Str(<<>>) ELSE x

IsSpace(c) == c \in {" ", "\t", "\n"}

RECURSIVE LStrip(_)
LStrip(s) == IF s # <<>> /\ IsSpace(Head(s)) THEN LStrip(Tail(s)) ELSE s

RECURSIVE RStrip(_)
RStrip(s) == IF s # <<>> /\ IsSpace(s[Len(s)]) THEN RStrip(SubSeq(s, 1, Len(s) - 1)) ELSE s

\* str.strip()
Strip(s) == RStrip(LStrip(s))

Upper == <<"A", "B", "C", "D", "E", "F", "I", "N", "S", "V">>

LowerOf == <<"a", "b", "c", "d", "e", "f", "i", "n", "s", "v">>

LowerChar(c) == IF \E k \in 1..Len(Upper) : Upper[k] = c
                THEN LowerOf[CHOOSE k \in 1..Len(Upper) : Upper[k] = c]
                ELSE c

\* str.lower()
Lower(s) == [k \in 1..Len(s) |-> LowerChar(s[k])]

(***************************************************************************)
(* pick_name                                                               *)
(***************************************************************************)
\* prefer_langs = ("fi", "en")
PreferLangsEnFirst == << <<"e", "n">>, <<"f", "i">> >>

PreferLangs == << <<"f", "i">>, <<"e", "n">> >>

\* norm_lang: (x or "").strip().lower()
NormLang(x) == Lower(Strip(OrEmptyStr(x).s))

\* name = (pi.get("name") or "").strip()
EntryName(pi) == Strip(OrEmptyStr(Get(pi, "name")).s)

NoName == [name |-> <<>>, lang |-> Null]

\* the inner loop `for pi in infos` of the preferred-language pass, for one lang
RECURSIVE ScanLang(_, _)
ScanLang(infos, lang) ==
    IF infos = <<>> THEN NoName
    ELSE LET pi == Head(infos) IN
         IF ~IsDict(pi) THEN ScanLang(Tail(infos), lang)
         ELSE IF EntryName(pi) # <<>> /\ NormLang(Get(pi, "language")) = lang
              THEN [name |-> EntryName(pi), lang |-> Get(pi, "language")]
              ELSE ScanLang(Tail(infos), lang)

\* the fallback loop: first non-empty name of any language
RECURSIVE ScanAny(_)
ScanAny(infos) ==
    IF infos = <<>> THEN NoName
    ELSE LET pi == Head(infos) IN
         IF ~IsDict(pi) THEN ScanAny(Tail(infos))
         ELSE IF EntryName(pi) # <<>>
              THEN [name |-> EntryName(pi), lang |-> Get(pi, "language")]
              ELSE ScanAny(Tail(infos))

\* the outer loop `for lang in prefer_langs`, then the fallback loop
RECURSIVE ScanLangs(_, _)
ScanLangs(infos, langs) ==
    IF langs = <<>> THEN ScanAny(infos)
    ELSE LET hit == ScanLang(infos, Head(langs)) IN
         IF hit.name # <<>> THEN hit ELSE ScanLangs(infos, Tail(langs))

PickName(product) ==
    LET got   == Get(product, "productInformations")
        infos == IF Falsy(got) THEN List(<<>>) ELSE got
    IN  IF ~IsList(infos) THEN NoName ELSE ScanLangs(infos.xs, PreferLangs)

(***************************************************************************)
(* parse_location_point                                                    *)
(***************************************************************************)
Digits == <<"0", "1", "2", "3", "4", "5", "6", "7", "8", "9">>

IsDigit(c) == \E k \in 1..10 : Digits[k] = c

DigitVal(c) == (CHOOSE k \in 1..10 : Digits[k] = c) - 1

Num(m, e) == [t |-> "num", m |-> m, e |-> e]

\* the text float() converts, once whitespace and the sign are taken off
Unsigned(s) ==
    LET u == Strip(s)
    IN  IF u # <<>> /\ Head(u) \in {"+", "-"} THEN Tail(u) ELSE u

\* float(s) does not raise ValueError.  For texts made of digits, signs, ".", blanks
\* and the letters a-c (no exponent, "inf", "nan" or "_"): an optional sign, then
\* digits with at most one "." among them and at least one digit.
FloatOk(s) ==
    LET u == Unsigned(s)
    IN  /\ \A k \in 1..Len(u) : IsDigit(u[k]) \/ u[k] = "."
        /\ Cardinality({k \in 1..Len(u) : u[k] = "."}) <= 1
        /\ \E k \in 1..Len(u) : IsDigit(u[k])

\* the integer the digits of u spell, the "." left out
RECURSIVE Mantissa(_, _)
Mantissa(u, acc) ==
    IF u = <<>> THEN acc
    ELSE IF Head(u) = "." THEN Mantissa(Tail(u), acc)
    ELSE Mantissa(Tail(u), 10 * acc + DigitVal(Head(u)))

\* m / 10^e without trailing zeros of the fraction
RECURSIVE Normal(_, _)
Normal(m, e) == IF e > 0 /\ m % 10 = 0 THEN Normal(m \div 10, e - 1) ELSE Num(m, e)

\* float(s), for s with FloatOk(s): the decimal m / 10^e
Float(s) ==
    LET t    == Strip(s)
        u    == Unsigned(s)
        dots == {k \in 1..Len(u) : u[k] = "."}
        e    == IF dots = {} THEN 0 ELSE Len(u) - (CHOOSE k \in dots : TRUE)
        m    == Mantissa(u, 0)
        v    == Normal(m, e)
    IN  IF Head(t) = "-" THEN Num(0 - v.m, v.e) ELSE v

\* s.split(",")
RECURSIVE SplitFrom(_, _)
SplitFrom(s, cur) ==
    IF s = <<>> THEN <<cur>>
    ELSE IF Head(s) = "," THEN <<cur>> \o SplitFrom(Tail(s), <<>>)
    ELSE SplitFrom(Tail(s), Append(cur, Head(s)))

Split(s) == SplitFrom(s, <<>>)

\* the tuple parse_location_point returns
LatLonSwapped(lat, lon) == [t |-> "pair", lat |-> lon, lon |-> lat]

LatLon(lat, lon) == [t |-> "pair", lat |-> lat, lon |-> lon]

ParseLocationPoint(loc) ==
    IF loc = Null THEN Null
    ELSE IF ~IsStr(loc) THEN Null
    ELSE LET s == Strip(loc.s) IN
         \* s.startswith("(") and s.endswith(")")
         IF ~(s # <<>> /\ Head(s) = "(" /\ s[Len(s)] = ")") THEN Null
         ELSE LET inner == Strip(SubSeq(s, 2, Len(s) - 1))
                  split == Split(inner)
                  parts == [k \in 1..Len(split) |-> Strip(split[k])]
              IN  IF Len(parts) # 2 THEN Null
                  ELSE IF ~FloatOk(parts[1]) THEN Null
                  ELSE IF ~FloatOk(parts[2]) THEN Null
                  ELSE LatLon(Float(parts[1]), Float(parts[2]))

(***************************************************************************)
(* extract_primary_address, build_row                                      *)
(***************************************************************************)
ExtractPrimaryAddress(product) ==
    LET got   == Get(product, "postalAddresses")
        addrs == IF Falsy(got) THEN List(<<>>) ELSE got
    IN  IF IsList(addrs) /\ addrs.xs # <<>> /\ IsDict(addrs.xs[1])
        THEN addrs.xs[1]
        ELSE EmptyObj

\* die(msg): prints to stderr and raises SystemExit(1)
Die(msg) == [ok |-> FALSE, msg |-> msg, code |-> 1]

\* json.dumps(product) bound to a jsonb parameter: the stored document is the object
Raw(product) == [jsonb |-> product]

BuildRow(product) ==
    \* product.get on something that is no dict raises AttributeError
    IF ~IsDict(product) THEN [ok |-> FALSE, msg |-> "AttributeError", code |-> 1]
    ELSE
    LET pid == Strip(OrEmptyStr(Get(product, "id")).s) IN
    IF pid = <<>> THEN Die("Encountered product without id.")
    ELSE
    LET picked == PickName(product) IN
    IF picked.name = <<>> THEN Die("Product has no productInformations.name")
    ELSE
    LET comp    == Get(product, "company")
        company == IF IsDict(comp) THEN Get(comp, "businessName") ELSE Null
        addr0   == ExtractPrimaryAddress(product)
        loc_str == IF IsDict(addr0) THEN Get(addr0, "location") ELSE Null
        latlon  == ParseLocationPoint(loc_str)
        lat     == IF latlon # Null THEN latlon.lat ELSE Null
        lon     == IF latlon # Null THEN latlon.lon ELSE Null
    IN  [ok  |-> TRUE,
         row |-> [product_id            |-> pid,
                  product_name          |-> picked.name,
                  product_name_language |-> picked.lang,
                  company_business_name |-> company,
                  product_type          |-> Get(product, "type"),
                  webshop_url_primary   |-> Get(product, "webshopUrlPrimary"),
                  url_primary           |-> Get(product, "urlPrimary"),
                  accessible            |-> Get(product, "accessible"),
                  updated_at            |-> Get(product, "updatedAt"),
                  postal_code           |-> IF IsDict(addr0) THEN Get(addr0, "postalCode") ELSE Null,
                  street_name           |-> IF IsDict(addr0) THEN Get(addr0, "streetName") ELSE Null,
                  city                  |-> IF IsDict(addr0) THEN Get(addr0, "city") ELSE Null,
                  lat                   |-> lat,
                  lon                   |-> lon,
                  raw                   |-> Raw(product)]]

(***************************************************************************)
(* UPSERT_SQL: the value expressions                                       *)
(***************************************************************************)
\* CASE WHEN lat IS NULL OR lon IS NULL THEN NULL
\*      ELSE ST_SetSRID(ST_MakePoint(lon, lat), 4326)::geography END
StLocation(row) ==
    IF row.lat = Null \/ row.lon = Null THEN Null
    ELSE [t |-> "point", srid |-> 4326, x |-> row.lon, y |-> row.lat]

(***************************************************************************)
(* Inputs of the pure functions.                                           *)
(***************************************************************************)
\* productInformations holds at most MaxInfos entries
MaxInfos == 3
\* a location text holds at most MaxParts comma-separated parts
MaxParts == 2

SeqsUpTo(S, len) == UNION {[1..k -> S] : k \in 0..len}

Entry(lang, name) == Obj([language |-> Str(lang), name |-> Str(name)])

EntrySet ==
    { Entry(<<"e", "n">>, <<"A">>),
      Entry(<<"f", "i">>, <<"B">>),
      Entry(<<"s", "v">>, <<"C">>),
      Entry(<<"F", "I", " ">>, <<" ", "D", " ">>),
      Entry(<<"f", "i">>, <<" ">>),
      Obj([language |-> Str(<<"e", "n">>)]),
      Obj([name |-> Str(<<"E">>)]),
      Obj([language |-> Null, name |-> Null]),
      Str(<<"x">>) }

PickInputs ==
    {Obj([id |-> Str(<<"X">>), productInformations |-> List(xs)]) : xs \in SeqsUpTo(EntrySet, MaxInfos)}
    \cup {Obj([id |-> Str(<<"X">>)]),
          Obj([id |-> Str(<<"X">>), productInformations |-> Null]),
          Obj([id |-> Str(<<"X">>), productInformations |-> Str(<<"B">>)])}

PartSet ==
    { <<"6", "0", ".", "1", "7">>,
      <<"2", "4", ".", "9", "4">>,
      <<"-", "1">>,
      <<" ", "+", "2", ".", "5", "0", " ">>,
      <<".", "5">>,
      <<"7", ".">>,
      <<"a", "b", "c">>,
      <<>>,
      <<"1", " ", "2">>,
      <<"-">>,
      <<"1", ".", "2", ".", "3">> }

RECURSIVE Join(_)
Join(parts) ==
    IF Len(parts) = 1 THEN parts[1] ELSE parts[1] \o <<",">> \o Join(Tail(parts))

LocTexts ==
    { pre \o open \o Join(parts) \o close \o post :
        pre \in {<<>>, <<" ">>}, open \in {<<"(">>, <<>>, <<"[">>},
        parts \in SeqsUpTo(PartSet, MaxParts) \ {<<>>},
        close \in {<<")">>, <<>>, <<"]">>}, post \in {<<>>, <<"\n">>} }

GoodLoc == Str(<<"(", "1", ",", "2", ")">>)

AddressLists ==
    {List(<<Obj([location |-> Str(s), city |-> Str(<<"c">>)])>>) : s \in LocTexts}
    \cup { Null,
           List(<<>>),
           Obj([location |-> GoodLoc]),
           List(<<Str(<<"x">>), Obj([location |-> GoodLoc])>>),
           List(<<Obj([city |-> Str(<<"c">>)]), Obj([location |-> GoodLoc])>>),
           List(<<Obj([location |-> Null])>>),
           List(<<Obj([location |-> List(<<GoodLoc>>)])>>),
           List(<<Obj([location |-> GoodLoc]), Obj([location |-> Str(<<"a">>)])>>) }

Named == List(<<Entry(<<"f", "i">>, <<"B">>)>>)

PointInputs ==
    {Obj([id |-> Str(<<"X">>), productInformations |-> Named, postalAddresses |-> a]) : a \in AddressLists}
    \cup {Obj([id |-> Str(<<"X">>), productInformations |-> Named])}

PickInit == IdleFetcher /\ IdleLoader /\ arg \in PickInputs /\ ret = Pending

CallPickName ==
    /\ ret = Pending
    /\ ret' = PickName(arg)
    /\ UNCHANGED <<arg, fvars, lvars>>

SpecPick == PickInit /\ [][CallPickName]_vars

PointInit == IdleFetcher /\ IdleLoader /\ arg \in PointInputs /\ ret = Pending

\* build_row(p), then the parameters bound into UPSERT_SQL
CallBuildRow ==
    /\ ret = Pending
    /\ ret' = LET b == BuildRow(arg)
              IN  IF b.ok THEN [ok |-> TRUE, row |-> b.row, location |-> StLocation(b.row)]
                  ELSE b
    /\ UNCHANGED <<arg, fvars, lvars>>

SpecPoint == PointInit /\ [][CallBuildRow]_vars

(***************************************************************************)
(* The database: ensure_schema and UPSERT_SQL                              *)
(***************************************************************************)
\* the objects ensure_schema creates, each with IF NOT EXISTS
FullSchema ==
    {"postgis", "public.products", "products_location_gix", "products_updated_at_idx",
     "products_type_idx", "products_name_idx", "products_raw_gin"}

EnsureSchema(schema) == schema \cup FullSchema

\* the columns of the INSERT list; ingested_at takes its DEFAULT now()
InsertColumns ==
    {"product_id", "product_name", "product_name_language", "company_business_name",
     "product_type", "webshop_url_primary", "url_primary", "accessible", "updated_at",
     "postal_code", "street_name", "city", "location", "raw"}

\* the columns assigned from EXCLUDED by ON CONFLICT (product_id) DO UPDATE SET
UpdateColumns == InsertColumns \ {"product_id"}

\* the VALUES list, evaluated with the parameters of build_row
Values(row) ==
    [c \in InsertColumns |-> IF c = "location" THEN StLocation(row) ELSE row[c]]

\* the row INSERT proposes; now is now(), the start time of the transaction
Proposed(row, now) ==
    [c \in InsertColumns \cup {"ingested_at"} |->
        IF c = "ingested_at" THEN now ELSE Values(row)[c]]

\* a table without the primary key: every statement inserts
UpsertNoKey(rows, row, now) == rows \cup {Proposed(row, now)}

\* ON CONFLICT that leaves ingested_at alone
UpsertKeepsStamp(rows, row, now) ==
    LET new   == Proposed(row, now)
        clash == {r \in rows : r.product_id = new.product_id}
    IN  IF clash = {} THEN rows \cup {new}
        ELSE (rows \ clash) \cup {[new EXCEPT !.ingested_at = r.ingested_at] : r \in clash}

\* cur.execute(UPSERT_SQL, row) on the table's rows
Upsert(rows, row, now) ==
    LET new   == Proposed(row, now)
        clash == {r \in rows : r.product_id = new.product_id}
    IN  IF clash = {} THEN rows \cup {new}
        ELSE (rows \ clash) \cup
             {[c \in DOMAIN r |->
                  IF c = "ingested_at" THEN now
                  ELSE IF c \in UpdateColumns THEN new[c]
                  ELSE r[c]] : r \in clash}

\* conn.commit()
Commit(t) ==
    [db |-> [schema |-> t.schema, rows |-> t.rows],
     tx |-> [t EXCEPT !.open = FALSE, !.pending = 0]]

\* an exception leaving `with psycopg.connect(...) as conn` that commits instead
LeaveOnErrorCommits(d, t) == Commit(t)

\* an exception (SystemExit included) leaving `with psycopg.connect(...) as conn`:
\* the connection rolls back and closes
LeaveOnError(d, t) ==
    [db |-> d,
     tx |-> [t EXCEPT !.open = FALSE, !.schema = d.schema, !.rows = d.rows, !.pending = 0]]

\* if not isinstance(p, dict): continue
ShouldSkipNever(p) == FALSE

ShouldSkip(p) == ~IsDict(p)

\* args.commit_every > 0 and (n % args.commit_every == 0), n already incremented
CommitDueBeforeIncrement(count, every) == every > 0 /\ ((count - 1) % every = 0)

CommitDue(count, every) == every > 0 /\ (count % every = 0)

(***************************************************************************)
(* ingest_products.py: main()                                              *)
(***************************************************************************)
\* the input array holds at most MaxProducts elements
MaxProducts == 4
\* --commit-every ranges over 0..MaxCommitEvery
MaxCommitEvery == 2
\* the loader is run at most MaxRuns times on the same input
MaxRuns == 2

T(c) == Str(<<"t", c>>)

ProductX1 ==
    Obj([id |-> Str(<<"X">>), productInformations |-> Named, type |-> T("1"),
         company |-> Obj([businessName |-> Str(<<"c">>)]),
         postalAddresses |-> List(<<Obj([location |-> GoodLoc, city |-> Str(<<"c">>)])>>)])

\* the same id once trimmed, every other field different
ProductX2 ==
    Obj([id |-> Str(<<" ", "X">>), type |-> T("2"),
         productInformations |-> List(<<Entry(<<"e", "n">>, <<"A">>)>>)])

ProductY == Obj([id |-> Str(<<"Y">>), productInformations |-> Named, type |-> T("1")])

ProductXOld ==
    Obj([id |-> Str(<<"X">>), type |-> T("0"),
         productInformations |-> List(<<Entry(<<"s", "v">>, <<"C">>)>>)])

NoIdMissing == Obj([productInformations |-> Named, type |-> T("1")])

\* records without a usable id: key missing, empty, whitespace only
NoIdProducts ==
    { NoIdMissing,
      Obj([id |-> Str(<<>>), productInformations |-> Named]),
      Obj([id |-> Str(<<" ">>), productInformations |-> Named]) }

Junk == Str(<<"j">>)

Elements == {ProductX1, ProductX2, ProductY, Junk, NoIdMissing}

\* arrays of up to MaxProducts elements, their records without id all of one kind
\* (the run ends at the first of them), and an input that is no array
Payloads ==
    {List([k \in DOMAIN xs |-> IF xs[k] = NoIdMissing THEN v ELSE xs[k]]) :
        xs \in SeqsUpTo(Elements, MaxProducts), v \in NoIdProducts}
    \cup {ProductX1}

\* a database never loaded into, or one an earlier load left a row for X in
InitialStores ==
    { [schema |-> {}, rows |-> {}],
      [schema |-> FullSchema, rows |-> {Proposed(BuildRow(ProductXOld).row, 0)}] }

Session(d) == [open |-> FALSE, start |-> 0, schema |-> d.schema, rows |-> d.rows, pending |-> 0]

Running == [code |-> -1, msg |-> ""]

LoadInit ==
    /\ IdleFetcher
    /\ IdleCall
    /\ lpc = "start"
    /\ commit_every \in 0..MaxCommitEvery
    /\ ensure_schema \in BOOLEAN
    /\ payload \in Payloads
    /\ idx = 0
    /\ n = 0
    /\ db \in InitialStores
    /\ tx = Session(db)
    /\ clock = 1
    /\ exit = Running
    /\ stdout = -1
    /\ executed = 0
    /\ commitLog = <<>>
    /\ startDb = db
    /\ run = 1
    /\ firstRun = [schema |-> {}, rows |-> {}]

\* products is not a list, or is empty: die before connecting
StartRejects ==
    /\ lpc = "start"
    /\ IF IsList(payload) THEN payload.xs = <<>> ELSE TRUE
    /\ lpc' = "exit"
    /\ exit' = IF ~IsList(payload)
               THEN [code |-> 1, msg |-> "JSON must contain array field"]
               ELSE [code |-> 1, msg |-> "No products found"]
    /\ UNCHANGED <<commit_every, ensure_schema, payload, idx, n, db, tx, clock, stdout,
                   executed, commitLog, startDb, run, firstRun, fvars, pvars>>

\* psycopg.connect; with --ensure-schema: ensure_schema(conn); conn.commit()
StartConnects ==
    /\ lpc = "start"
    /\ IF IsList(payload) THEN payload.xs # <<>> ELSE FALSE
    /\ lpc' = "loop"
    /\ idx' = 1
    /\ n' = 0
    /\ IF ensure_schema
       THEN LET t == [Session(db) EXCEPT !.open = TRUE, !.start = clock,
                                         !.schema = EnsureSchema(db.schema)]
            IN  /\ db' = Commit(t).db
                /\ tx' = Commit(t).tx
                /\ commitLog' = <<[at |-> 0, by |-> "ensure_schema"]>>
                /\ clock' = clock + 1
       ELSE /\ tx' = Session(db)
            /\ UNCHANGED <<db, commitLog, clock>>
    /\ UNCHANGED <<commit_every, ensure_schema, payload, exit, stdout, executed, startDb,
                   run, firstRun, fvars, pvars>>

\* the element the loop is at
Cur == payload.xs[idx]

InLoop == lpc = "loop" /\ idx <= Len(payload.xs)

\* if not isinstance(p, dict): continue
LoopSkip ==
    /\ InLoop
    /\ ShouldSkip(Cur)
    /\ idx' = idx + 1
    /\ UNCHANGED <<lpc, commit_every, ensure_schema, payload, n, db, tx, clock, exit,
                   stdout, executed, commitLog, startDb, run, firstRun, fvars, pvars>>

\* build_row(p) dies: SystemExit(1) leaves the with blocks
LoopDie ==
    /\ InLoop
    /\ ~ShouldSkip(Cur)
    /\ ~BuildRow(Cur).ok
    /\ lpc' = "exit"
    /\ exit' = [code |-> BuildRow(Cur).code, msg |-> BuildRow(Cur).msg]
    /\ db' = LeaveOnError(db, tx).db
    /\ tx' = LeaveOnError(db, tx).tx
    /\ UNCHANGED <<commit_every, ensure_schema, payload, idx, n, clock, stdout, executed,
                   commitLog, startDb, run, firstRun, fvars, pvars>>

\* cur.execute(UPSERT_SQL, row) on a database without the table: psycopg raises
LoopDbError ==
    /\ InLoop
    /\ ~ShouldSkip(Cur)
    /\ BuildRow(Cur).ok
    /\ "public.products" \notin tx.schema
    /\ lpc' = "exit"
    /\ exit' = [code |-> 1, msg |-> "psycopg.errors.UndefinedTable"]
    /\ db' = LeaveOnError(db, tx).db
    /\ tx' = LeaveOnError(db, tx).tx
    /\ clock' = clock + 1
    /\ UNCHANGED <<commit_every, ensure_schema, payload, idx, n, stdout, executed,
                   commitLog, startDb, run, firstRun, fvars, pvars>>

\* row = build_row(p); cur.execute(UPSERT_SQL, row); n += 1; the batch commit when due.
\* The first statement after a commit opens the transaction; now() is its start time.
LoopUpsert ==
    /\ InLoop
    /\ ~ShouldSkip(Cur)
    /\ BuildRow(Cur).ok
    /\ "public.products" \in tx.schema
    /\ LET start == IF tx.open THEN tx.start ELSE clock
           t     == [tx EXCEPT !.open = TRUE, !.start = start,
                               !.rows = Upsert(tx.rows, BuildRow(Cur).row, start),
                               !.pending = tx.pending + 1]
           due   == CommitDue(n + 1, commit_every)
       IN  /\ n' = n + 1
           /\ executed' = executed + 1
           /\ db' = IF due THEN Commit(t).db ELSE db
           /\ tx' = IF due THEN Commit(t).tx ELSE t
           /\ commitLog' = IF due THEN Append(commitLog, [at |-> n + 1, by |-> "loop"])
                           ELSE commitLog
           /\ clock' = clock + (IF due THEN 2 ELSE 1)
    /\ idx' = idx + 1
    /\ UNCHANGED <<lpc, commit_every, ensure_schema, payload, exit, stdout, startDb, run,
                   firstRun, fvars, pvars>>

\* after the loop: conn.commit(); print; the with block closes the connection
LoopEnd ==
    /\ lpc = "loop"
    /\ idx > Len(payload.xs)
    /\ db' = Commit(tx).db
    /\ tx' = Commit(tx).tx
    /\ commitLog' = Append(commitLog, [at |-> n, by |-> "end"])
    /\ clock' = clock + 1
    /\ stdout' = n
    /\ exit' = [code |-> 0, msg |-> "OK"]
    /\ lpc' = "exit"
    /\ UNCHANGED <<commit_every, ensure_schema, payload, idx, n, executed, startDb, run,
                   firstRun, fvars, pvars>>

\* the operator runs the loader again, same arguments and input
RunAgain ==
    /\ lpc = "exit"
    /\ run < MaxRuns
    /\ run' = run + 1
    /\ firstRun' = IF run = 1 THEN db ELSE firstRun
    /\ lpc' = "start"
    /\ idx' = 0
    /\ n' = 0
    /\ tx' = Session(db)
    /\ exit' = Running
    /\ stdout' = -1
    /\ executed' = 0
    /\ commitLog' = <<>>
    /\ startDb' = db
    /\ UNCHANGED <<commit_every, ensure_schema, payload, db, clock, fvars, pvars>>

LoadNext ==
    \/ StartRejects
    \/ StartConnects
    \/ LoopSkip
    \/ LoopDie
    \/ LoopDbError
    \/ LoopUpsert
    \/ LoopEnd

\* one run of the loader
Spec == LoadInit /\ [][LoadNext]_vars

\* runs with --ensure-schema, repeated on the same input (the table always exists
\* once StartConnects has run, so LoopDbError has no part in them)
RerunPayloads ==
    {pl \in Payloads :
        IF IsList(pl)
        THEN \A k \in 1..Len(pl.xs) : IsDict(pl.xs[k]) => "type" \in DOMAIN pl.xs[k].f
        ELSE TRUE}

RerunInit == LoadInit /\ ensure_schema /\ payload \in RerunPayloads

RerunNext ==
    \/ StartRejects
    \/ StartConnects
    \/ LoopSkip
    \/ LoopDie
    \/ LoopUpsert
    \/ LoopEnd
    \/ RunAgain

SpecRerun == RerunInit /\ [][RerunNext]_vars

(***************************************************************************)
(* Helpers of the fetcher's claims.                                        *)
(***************************************************************************)
RECURSIVE Flatten(_)
Flatten(pages) == IF pages = <<>> THEN <<>> ELSE Head(pages) \o Flatten(Tail(pages))

IsOk(r) == r.kind = "ok"

\* indexes of the empty pages among the replies
EmptyAt == {k \in 1..Len(replies) : IsOk(replies[k]) /\ replies[k].product = <<>>}

FailedAt == {k \in 1..Len(replies) : ~IsOk(replies[k])}

\* the product lists of the first k replies
PagesBefore(k) == [j \in 1..(k - 1) |-> replies[j].product]

(***************************************************************************)
(* Claims about the fetcher (checked under SpecFetch / FairSpecFetch).     *)
(***************************************************************************)

\* C1: when no request fails and some page is empty, pagination stops at the first
\* empty page: that page is the last request, the requests were issued at offsets
\* 0, limit, 2*limit, ..., and the file holds exactly the concatenation, in request
\* order, of the product lists of the pages requested before the empty one.
C1_StopsAtFirstEmptyPage ==
    \A k \in EmptyAt :
        FailedAt = {} =>
            /\ k = Len(replies)
            /\ Len(requests) = k
            /\ \A j \in 1..k : requests[j] = (j - 1) * limit
            /\ fpc = "written"
            /\ outWritten
            /\ outFile = Dump(Flatten(PagesBefore(k)))

\* an empty page met after several non-empty pages of different lengths
C1_Witness ==
    /\ EmptyAt # {}
    /\ FailedAt = {}
    /\ Len(replies) >= 4
    /\ outWritten
    /\ Len(outFile.array) >= 4
    /\ \E a, b \in 1..(Len(replies) - 1) : Len(replies[a].product) # Len(replies[b].product)

\* C5: a failed request ends the run: it is the last request (no retry of its offset,
\* no later offset), the run is aborted and the output file is not written, however
\* many pages were fetched before.
C5_FailureAborts ==
    \A k \in FailedAt :
        /\ k = Len(replies)
        /\ Len(requests) = k
        /\ \A j \in 1..(k - 1) : requests[j] < requests[k]
        /\ fpc = "aborted"
        /\ ~outWritten
        /\ outFile = NoFile

\* a server error after pages were fetched successfully
C5_Witness ==
    /\ FailedAt # {}
    /\ replies[Len(replies)].kind = "TransportServerError"
    /\ Len(products) >= 3
    /\ Len(requests) >= 3

\* C9 (state part): requests go to offsets 0, limit, 2*limit, ... below 20000, each
\* once and in increasing order, so at most 100 of them; when the bound is reached
\* with no empty page and no failure the accumulated products are written.
C9_Bounded ==
    /\ Len(requests) <= 100
    /\ \A k \in 1..Len(requests) : requests[k] = (k - 1) * limit /\ requests[k] < 20000
    /\ (Len(requests) = 100 /\ EmptyAt = {} /\ FailedAt = {}) =>
            /\ fpc = "written"
            /\ outWritten
            /\ outFile = Dump(products)
            /\ products = Flatten(PagesBefore(Len(replies) + 1))

\* C9: the pagination loop terminates for every sequence of page replies, within
\* the request bound above.
C9_Terminates == [](C9_Bounded) /\ <>(fpc # "fetching")

\* the offset bound is reached without any empty page
C9_Witness ==
    /\ Len(requests) = 100
    /\ EmptyAt = {}
    /\ FailedAt = {}
    /\ outWritten
    /\ Len(products) >= 100

(***************************************************************************)
(* Claims about pick_name and the point of build_row (SpecPick, SpecPoint).*)
(***************************************************************************)
MinOf(S) == CHOOSE k \in S : \A j \in S : k <= j

\* the entries of arg's productInformations ("or []"; <<>> when it is not a list)
ArgInfos ==
    LET got == Get(arg, "productInformations")
    IN  IF IsList(got) THEN got.xs ELSE <<>>

\* positions of the entries with a non-empty name (a dict whose name, trimmed, is
\* not empty)
WithName == {k \in 1..Len(ArgInfos) : IsDict(ArgInfos[k]) /\ EntryName(ArgInfos[k]) # <<>>}

\* those whose language, trimmed and lower-cased as the code compares it, is l
NamedIn(l) == {k \in WithName : NormLang(Get(ArgInfos[k], "language")) = l}

\* the entry the claim designates, 0 when there is none
Designated ==
    IF NamedIn(<<"f", "i">>) # {} THEN MinOf(NamedIn(<<"f", "i">>))
    ELSE IF NamedIn(<<"e", "n">>) # {} THEN MinOf(NamedIn(<<"e", "n">>))
    ELSE IF WithName # {} THEN MinOf(WithName)
    ELSE 0

ExampleEnFi == Obj([id |-> Str(<<"X">>), productInformations |->
                    List(<<Entry(<<"e", "n">>, <<"A">>), Entry(<<"f", "i">>, <<"B">>)>>)])

ExampleSv == Obj([id |-> Str(<<"X">>), productInformations |->
                  List(<<Entry(<<"s", "v">>, <<"C">>)>>)])

\* C7: pick_name returns the first non-empty name whose language is fi, else the
\* first whose language is en, else the first of any language, with that entry's
\* language as written; the name is empty only when no entry has a non-empty name.
\* (Languages are compared trimmed and lower-cased, names are trimmed, as in the
\* code.)  [en:A, fi:B] gives B/fi and [sv:C] gives C/sv.
C7_PickNamePreference ==
    ret # Pending =>
        /\ IF Designated = 0
           THEN ret = [name |-> <<>>, lang |-> Null]
           ELSE /\ ret.name = EntryName(ArgInfos[Designated])
                /\ ret.lang = Get(ArgInfos[Designated], "language")
        /\ (ret.name = <<>>) <=> (WithName = {})
        /\ arg = ExampleEnFi => ret = [name |-> <<"B">>, lang |-> Str(<<"f", "i">>)]
        /\ arg = ExampleSv => ret = [name |-> <<"C">>, lang |-> Str(<<"s", "v">>)]

\* an en entry listed before the fi entry that wins
C7_Witness ==
    /\ ret # Pending
    /\ Len(ArgInfos) >= 2
    /\ Designated >= 2
    /\ NamedIn(<<"e", "n">>) # {}
    /\ MinOf(NamedIn(<<"e", "n">>)) < Designated
    /\ ret.lang = Str(<<"f", "i">>)

\* the location text of arg's first address, trimmed; <<>> when there is none
ArgLocText ==
    LET addrs == Get(arg, "postalAddresses") IN
    IF IsList(addrs) /\ addrs.xs # <<>> /\ IsDict(addrs.xs[1])
       /\ IsStr(Get(addrs.xs[1], "location"))
    THEN Strip(Get(addrs.xs[1], "location").s)
    ELSE <<>>

Commas(s) == {k \in 1..Len(s) : s[k] = ","}

\* s has the form ( number , number )
HasPointForm(s) ==
    /\ Len(s) >= 2
    /\ s[1] = "("
    /\ s[Len(s)] = ")"
    /\ Cardinality(Commas(s)) = 1
    /\ LET c == CHOOSE k \in Commas(s) : TRUE
       IN  FloatOk(SubSeq(s, 2, c - 1)) /\ FloatOk(SubSeq(s, c + 1, Len(s) - 1))

FirstNumber(s) == Float(SubSeq(s, 2, (CHOOSE k \in Commas(s) : TRUE) - 1))

SecondNumber(s) == Float(SubSeq(s, (CHOOSE k \in Commas(s) : TRUE) + 1, Len(s) - 1))

\* C8: build_row never aborts on the location; lat and lon are both set or both
\* null; they are set exactly when the first address's location text has the form
\* (number,number), lat being the first number and lon the second, and the stored
\* point is then (x = longitude, y = latitude); any other text gives a null point.
C8_PointAllOrNothing ==
    ret # Pending =>
        /\ ret.ok
        /\ (ret.row.lat = Null) <=> (ret.row.lon = Null)
        /\ IF HasPointForm(ArgLocText)
           THEN /\ ret.row.lat = FirstNumber(ArgLocText)
                /\ ret.row.lon = SecondNumber(ArgLocText)
                /\ ret.location = [t |-> "point", srid |-> 4326,
                                   x |-> SecondNumber(ArgLocText),
                                   y |-> FirstNumber(ArgLocText)]
           ELSE /\ ret.row.lat = Null
                /\ ret.row.lon = Null
                /\ ret.location = Null

\* "(60.17,24.94)" stored as the point (24.94, 60.17)
C8_Witness ==
    /\ ret # Pending
    /\ ArgLocText = <<"(", "6", "0", ".", "1", "7", ",", "2", "4", ".", "9", "4", ")">>
    /\ ret.location.x = Num(2494, 2)
    /\ ret.location.y = Num(6017, 2)

(***************************************************************************)
(* Claims about the loader (Spec: one run; SpecRerun: repeated runs).      *)
(***************************************************************************)
\* the columns UPSERT_SQL derives from the record (all but ingested_at)
Derived(rows) == {[c \in InsertColumns |-> r[c]] : r \in rows}

RowsOf(rows, pid) == {r \in rows : r.product_id = pid}

\* the step is an execution of UPSERT_SQL
UpsertStep == executed' = executed + 1

\* the row the step upserts, and the stored row it meets
StepRow == BuildRow(Cur).row

Met == RowsOf(tx.rows, StepRow.product_id)

\* the stored rows for the step's id whose derived columns differ from the step's
MetDifferent == {old \in Met : [c \in InsertColumns |-> old[c]] # Values(StepRow)}

\* the row the step meets was written earlier in the transaction that is still open
MetInSameTransaction == tx.open /\ \A old \in Met : old.ingested_at = tx.start

\* what C2 says of every upsert but the timestamp: one row per product_id, and
\* after an upsert exactly one row for its id, holding the upsert's derived columns
OneRowPerId(rows) == \A r1, r2 \in rows : r1.product_id = r2.product_id => r1 = r2

LastWriteWins ==
    UpsertStep =>
        /\ OneRowPerId(tx'.rows \cup IF tx'.open THEN {} ELSE db'.rows)
        /\ Cardinality(RowsOf(tx'.rows, StepRow.product_id)) = 1
        /\ \A new \in RowsOf(tx'.rows, StepRow.product_id) :
               [c \in InsertColumns |-> new[c]] = Values(StepRow)

\* C2 as stated: the table holds at most one row per product_id; an upsert of an id
\* that is already stored with other field values leaves exactly one row for it,
\* with every derived column of this upsert, and an ingestion timestamp later than
\* the stored one.
C2_Original ==
    [][LastWriteWins /\
       (UpsertStep => \A old \in MetDifferent : \A new \in RowsOf(tx'.rows, StepRow.product_id) :
                          new.ingested_at > old.ingested_at)]_vars

\* C2 amended: as above, but the timestamp is now(), the start of the transaction:
\* it is later than the stored one when the stored row was written by an earlier
\* transaction, and equal to it when both upserts run in the same transaction
\* (between two commits).
C2_LastWriteWins ==
    [][LastWriteWins /\
       (UpsertStep => \A old \in MetDifferent : \A new \in RowsOf(tx'.rows, StepRow.product_id) :
                          IF MetInSameTransaction
                          THEN new.ingested_at = old.ingested_at
                          ELSE new.ingested_at > old.ingested_at)]_vars

\* X upserted in one transaction, then upserted with other values in a later one
C2_Witness ==
    /\ lpc = "loop"
    /\ commit_every = 1
    /\ executed = 2
    /\ idx = 3
    /\ payload.xs[1] = ProductX1
    /\ payload.xs[2] = ProductX2
    /\ \E r \in db.rows : r.product_name = <<"A">> /\ r.location = Null /\ r.ingested_at > 1

HasId(p) == IsStr(Get(p, "id")) /\ \E k \in 1..Len(Get(p, "id").s) : ~IsSpace(Get(p, "id").s[k])

\* the dicts among the first k elements of the input
DictsUpTo(k) == SelectSeq(SubSeq(payload.xs, 1, k), IsDict)

RECURSIVE ApplyAll(_, _)
ApplyAll(rows, ps) ==
    IF ps = <<>> THEN rows ELSE ApplyAll(Upsert(rows, BuildRow(Head(ps)).row, 0), Tail(ps))

\* the records of the batches completed when the run is at element k
InCompletedBatches(k) ==
    LET before == DictsUpTo(k - 1)
        done   == IF commit_every > 0 THEN Len(before) - (Len(before) % commit_every) ELSE 0
    IN  SubSeq(before, 1, done)

\* C3: a record with no id (key missing, empty or whitespace only) is never passed:
\* the run ends there with exit code 1, and the committed rows are those the run
\* started with plus the upserts of the batches completed before: neither the rows
\* upserted since the last batch commit nor the failing record are committed.
C3_NoIdAborts ==
    /\ lpc \in {"loop", "exit"} /\ IsList(payload) =>
           \A k \in 1..Len(payload.xs) :
               (k < idx /\ IsDict(payload.xs[k])) => HasId(payload.xs[k])
    /\ lpc = "exit" /\ exit.msg = "Encountered product without id." =>
           LET expect == ApplyAll(startDb.rows, InCompletedBatches(idx))
           IN  /\ exit.code = 1
               /\ stdout = -1
               /\ IsDict(Cur) /\ ~HasId(Cur)
               /\ Derived(db.rows) = Derived(expect)
               /\ Cardinality(db.rows) = Cardinality(expect)
               /\ tx.rows = db.rows

\* a batch of two committed, a third row upserted, then a record without id
C3_Witness ==
    /\ lpc = "exit"
    /\ exit.msg = "Encountered product without id."
    /\ commit_every = 2
    /\ executed = 3
    /\ Len(commitLog) = 1
    /\ Cardinality(db.rows) = 1
    /\ DictsUpTo(3) = <<ProductX1, ProductX2, ProductY>>

LoopCommits == SelectSeq(commitLog, LAMBDA c : c.by = "loop")

EndCommits == SelectSeq(commitLog, LAMBDA c : c.by = "end")

\* C4: with N = commit_every > 0 the loop commits exactly after the upserts N, 2N,
\* 3N, ..., so fewer than N upserted rows are uncommitted after each loop step; with
\* N = 0 the loop does not commit; a successful run ends with one more commit,
\* after which every upserted row is committed.
C4_BatchedCommits ==
    lpc \in {"loop", "exit"} =>
        /\ commit_every > 0 =>
               /\ tx.pending < commit_every
               /\ lpc = "loop" => tx.pending = n % commit_every
               /\ Len(LoopCommits) = n \div commit_every
               /\ \A k \in 1..Len(LoopCommits) : LoopCommits[k].at = k * commit_every
        /\ commit_every = 0 =>
               /\ LoopCommits = <<>>
               /\ lpc = "loop" => tx.pending = n
        /\ exit.code = 0 =>
               /\ EndCommits = <<[at |-> n, by |-> "end"]>>
               /\ commitLog[Len(commitLog)].by = "end"
               /\ tx.pending = 0
               /\ ~tx.open
               /\ db.rows = tx.rows
               /\ Derived(db.rows) = Derived(ApplyAll(startDb.rows, DictsUpTo(Len(payload.xs))))

\* a run of four upserts with N = 2, one row still uncommitted between the batches
C4_Witness ==
    /\ lpc = "loop"
    /\ commit_every = 2
    /\ n = 3
    /\ tx.pending = 1
    /\ Len(LoopCommits) = 1
    /\ tx.rows # db.rows

\* C6: with --ensure-schema, a run on the input a previous run was given leaves the
\* store as that run left it: the same schema objects, the same number of rows and
\* the same derived column values.
C6_RerunSameStore ==
    (run >= 2 /\ lpc = "exit" /\ ensure_schema) =>
        /\ db.schema = firstRun.schema
        /\ db.schema = FullSchema \/ exit.msg \in {"JSON must contain array field", "No products found"}
        /\ Cardinality(db.rows) = Cardinality(firstRun.rows)
        /\ Derived(db.rows) = Derived(firstRun.rows)

\* the second run, on a database the first run created, with an id repeated in the input
C6_Witness ==
    /\ run = 2
    /\ lpc = "exit"
    /\ exit.code = 0
    /\ startDb.schema = FullSchema
    /\ stdout = 3
    /\ Cardinality(db.rows) = 2
    /\ \E r \in db.rows : \E q \in firstRun.rows :
           r.product_id = q.product_id /\ r.ingested_at > q.ingested_at

\* the number of dicts among the elements the loop has passed
DictsPassed == Len(DictsUpTo(idx - 1))

\* C10: an element that is no JSON object is passed without error, without an
\* upsert and without advancing the row counter; the count printed on success is
\* the number of upsert statements executed, one per object element.
C10_SkipsNonObjects ==
    /\ lpc = "loop" =>
           /\ n = DictsPassed
           /\ executed = DictsPassed
           /\ tx.pending <= DictsPassed
    /\ lpc = "exit" /\ exit.code = 1 /\ IsList(payload) /\ payload.xs # <<>> =>
           /\ IsDict(Cur)
           /\ executed = DictsPassed
    /\ lpc = "exit" /\ exit.code = 0 =>
           /\ stdout = executed
           /\ stdout = Len(DictsUpTo(Len(payload.xs)))
           /\ stdout >= Cardinality(db.rows) - Cardinality(startDb.rows)

\* a successful run over objects and non-objects, with an id repeated
C10_Witness ==
    /\ lpc = "exit"
    /\ exit.code = 0
    /\ Len(payload.xs) = 4
    /\ ~IsDict(payload.xs[2])
    /\ stdout = 3
    /\ Cardinality(db.rows) = 2
    /\ startDb.rows = {}

====
